---- MODULE Spec2Model ----
(***************************************************************************)
(* Code Execution Core of beagle: the Execution Coordinator                *)
(* (app/api/execute.py), the one-shot executors (DockerExecutor,           *)
(* ProcessExecutor), the Session Executor (StatefulDockerExecutor) and the *)
(* in-sandbox agent (sandbox/execution_server.py).                         *)
(*                                                                         *)
(* Spec         : coordinator + one-shot executors.                        *)
(* SpecImports  : Spec with submitted programs that import modules.        *)
(* SpecCancel   : Spec with clients that close the connection.             *)
(* SpecSession  : session executor + agent.                                *)
(* SpecSandboxes: the containers that either kind of executor creates.     *)
(* SpecEnvelope : runs of user code in a wrapper or the agent, and the     *)
(*                envelope each teardown builds.                           *)
(***************************************************************************)
EXTENDS Integers, Sequences, FiniteSets, TLC

(***************************************************************************)
(* Bounds                                                                  *)
(***************************************************************************)
NumRequests == 2      \* submits handled by the coordinator

Requests == 1..NumRequests

None == "None"
NoRow == [status |-> "absent"]

(***************************************************************************)
(* Inputs of submit.  Code is a sequence of tokens; a blocked term is a    *)
(* token sequence, so that removing a token can create a term.             *)
(***************************************************************************)
NUL == "\\x00"

os_system   == <<"os.sys", "tem">>
subprocess_ == <<"subprocess.">>
shutil_     == <<"shutil.">>
sys_exit    == <<"sys.exit">>

CodeInputs ==
    { <<"x=1">>,
      <<"os.sys", NUL, "tem">>,
      <<"shutil.", "x=1">>,
      <<"x=1", "subprocess.">> }

\* programs that import a module
ImportInputs == { <<"import socket">> }

Users == {"u1", "u2"}
FileIds == {None, "f1", "f2"}
ConversationIds == {None, "s1"}
ExecutionModes == {"DOCKER", "docker", "PROCESS"}

\* files table: f1 is a live file of u1, f2 a deleted file of u1
Files == [f1 |-> [user_id |-> "u1", is_deleted |-> FALSE],
          f2 |-> [user_id |-> "u1", is_deleted |-> TRUE]]

RequestInputs ==
    { [user |-> "u1", file_id |-> None, conversation_id |-> None],
      [user |-> "u1", file_id |-> "f1", conversation_id |-> "s1"],
      [user |-> "u2", file_id |-> "f1", conversation_id |-> None],
      [user |-> "u1", file_id |-> "f2", conversation_id |-> "s1"] }

VARIABLES
    execution_mode,   \* settings.execution_mode
    docker_ping,      \* outcome of docker.from_env().ping() at import time
    code_executor,    \* the module-level executor of execute.py
    docker_client,    \* DockerExecutor.client is set
    hreq,             \* the coordinator's in-flight handlers
    executions,       \* rows of the executions table, one per handler
    temp_dirs,        \* host working directories that exist
    containers,       \* one-shot containers that exist, with their configuration
    procs,            \* one-shot child processes that are alive
    launched,         \* what each handler has allocated so far
    loop_owner,       \* handler that occupies the event loop (0: free)
    disconnected,     \* handlers whose client has closed the connection
    sx_client,        \* StatefulDockerExecutor.client is set
    call,             \* calls of StatefulDockerExecutor.execute
    sc,               \* session containers known to the Docker daemon
    wrun              \* a run of user code inside a wrapper or the agent

coordVars == <<execution_mode, docker_ping, code_executor, docker_client, hreq,
               executions, temp_dirs, containers, procs, launched, loop_owner,
               disconnected>>

sessVars == <<sx_client, call, sc>>

envVars == <<wrun>>

vars == <<coordVars, sessVars, envVars>>

(***************************************************************************)
(* app/core/sanitizer.py                                                   *)
(***************************************************************************)
max_length == 100000

Min(a, b) == IF a < b THEN a ELSE b

sanitize_code(code) ==
    IF code = <<>> THEN <<>>
    ELSE LET cut == SubSeq(code, 1, Min(Len(code), max_length))
         IN  SelectSeq(cut, LAMBDA t : t # NUL)

(***************************************************************************)
(* validate_code of the two one-shot executors                             *)
(***************************************************************************)
TermIn(term, code) ==
    \E i \in 1..Len(code) :
        /\ i + Len(term) - 1 <= Len(code)
        /\ SubSeq(code, i, i + Len(term) - 1) = term

RECURSIVE FirstBlocked(_, _)
FirstBlocked(terms, code) ==
    IF terms = <<>> THEN [valid |-> TRUE, msg |-> None]
    ELSE IF TermIn(Head(terms), code)
         THEN [valid |-> FALSE, msg |-> Head(terms)]
         ELSE FirstBlocked(Tail(terms), code)

DockerExecutor_validate_code(code) ==
    FirstBlocked(<<os_system, subprocess_>>, code)

ProcessExecutor_validate_code(code) ==
    FirstBlocked(<<os_system, subprocess_, shutil_, sys_exit>>, code)

validate_code(executor, code) ==
    IF executor = "DockerExecutor"
    THEN DockerExecutor_validate_code(code)
    ELSE ProcessExecutor_validate_code(code)

(***************************************************************************)
(* Module import of app/api/execute.py: the executor is selected once.     *)
(***************************************************************************)
Upper(m) == IF m = "docker" THEN "DOCKER" ELSE m

select_executor(mode, ping) ==
    IF Upper(mode) = "DOCKER"
    THEN IF ping = "ok" THEN "DockerExecutor" ELSE "ProcessExecutor"
    ELSE "ProcessExecutor"

Startup ==
    /\ code_executor = "unset"
    /\ \E ping \in {"ok", "fail"} :
        /\ docker_ping' = IF Upper(execution_mode) = "DOCKER" THEN ping ELSE "unknown"
        /\ code_executor' = select_executor(execution_mode, ping)
        /\ docker_client' = (select_executor(execution_mode, ping) = "DockerExecutor")
    /\ UNCHANGED <<execution_mode, hreq, executions, temp_dirs, containers,
                   procs, launched, loop_owner>>

(***************************************************************************)
(* execute_code, the handler of POST /execute.  A handler is suspended     *)
(* only at its awaits; the executors' execute contains no await, so the    *)
(* handler keeps the event loop from dispatch until the row is finalized.  *)
(***************************************************************************)
IdleReq == [pc |-> "idle", user |-> None, code |-> <<>>, file_id |-> None,
            conversation_id |-> None, backend |-> "none", exit |-> -1,
            out |-> "none", expired |-> FALSE]

\* the handler has ended: only the response (and, for a 400, the code) is kept
Closed(response, code) == [IdleReq EXCEPT !.pc = response, !.code = code]

Started == code_executor # "unset"

\* Timestamps are readings of datetime.utcnow(); the readings a handler takes
\* are numbered in the order in which it takes them.  NoTime is NULL.
NoTime == 0

\* the row inserted without a status takes the column default
NewExecution_default(user, file_id, conversation_id) ==
    [status |-> "pending",
     user_id |-> user,
     file_id |-> file_id,
     conversation_id |-> conversation_id,
     stderr |-> None,
     execution_time_ms |-> None,
     started_at |-> NoTime,
     created_at |-> 1,
     completed_at |-> NoTime]

\* lines 99-111: the row is built with status "running" and started_at, the
\* handler's first reading (line 107); created_at is the column default
\* datetime.utcnow (models/file.py lines 187-190), which the ORM calls when
\* it inserts the row at the commit of line 110: the second reading
NewExecution(user, file_id, conversation_id) ==
    [status |-> "running",
     user_id |-> user,
     file_id |-> file_id,
     conversation_id |-> conversation_id,
     stderr |-> None,
     execution_time_ms |-> None,
     started_at |-> 1,
     created_at |-> 2,
     completed_at |-> NoTime]

\* line 67: "if not is_valid" raises HTTP 400
is_rejected_never(v) == FALSE

is_rejected(v) == ~v.valid

\* lines 62-71 (and 99-111 when no file_id is given): sanitize, validate,
\* HTTP 400 on rejection; the submitted code is one of codes
execute_code_validate_from(r, codes) ==
    /\ Started
    /\ loop_owner = 0
    /\ hreq[r].pc = "idle"
    /\ \A q \in Requests : q < r => hreq[q].pc # "idle"
    /\ \E raw \in codes, inp \in RequestInputs :
        LET code == sanitize_code(raw)
            v    == validate_code(code_executor, code)
            h    == [hreq[r] EXCEPT !.user = inp.user,
                                    !.code = code,
                                    !.file_id = inp.file_id,
                                    !.conversation_id = inp.conversation_id]
        IN  IF is_rejected(v)
            THEN /\ hreq' = [hreq EXCEPT ![r] = Closed("closed_400", code)]
                 /\ UNCHANGED executions
            ELSE IF inp.file_id # None
            THEN /\ hreq' = [hreq EXCEPT ![r] = [h EXCEPT !.pc = "validated"]]
                 /\ UNCHANGED executions
            ELSE /\ hreq' = [hreq EXCEPT ![r] = [h EXCEPT !.pc = "created"]]
                 /\ executions' = [executions EXCEPT ![r] =
                        NewExecution(inp.user, inp.file_id, inp.conversation_id)]
    /\ UNCHANGED <<execution_mode, docker_ping, code_executor, docker_client,
                   temp_dirs, containers, procs, launched, loop_owner>>

execute_code_validate(r) == execute_code_validate_from(r, CodeInputs)

\* lines 73-88: select the file of this user, HTTP 404 when there is none
FileVisible(user, fid) ==
    /\ fid \in DOMAIN Files
    /\ Files[fid].user_id = user
    /\ Files[fid].is_deleted = FALSE

execute_code_select(r) ==
    /\ loop_owner = 0
    /\ hreq[r].pc = "validated"
    /\ hreq' = [hreq EXCEPT ![r] =
                  IF FileVisible(hreq[r].user, hreq[r].file_id)
                  THEN [@ EXCEPT !.pc = "loading"]
                  ELSE Closed("closed_404", <<>>)]
    /\ UNCHANGED <<execution_mode, docker_ping, code_executor, docker_client,
                   executions, temp_dirs, containers, procs, launched, loop_owner>>

\* lines 90-111: load_dataframe (may raise), then the row is inserted
execute_code_load(r) ==
    /\ loop_owner = 0
    /\ hreq[r].pc = "loading"
    /\ \/ /\ hreq' = [hreq EXCEPT ![r].pc = "created"]
          /\ executions' = [executions EXCEPT ![r] =
                NewExecution(hreq[r].user, hreq[r].file_id, hreq[r].conversation_id)]
       \/ /\ hreq' = [hreq EXCEPT ![r] = Closed("closed_500", <<>>)]
          /\ UNCHANGED executions
    /\ UNCHANGED <<execution_mode, docker_ping, code_executor, docker_client,
                   temp_dirs, containers, procs, launched, loop_owner>>

\* a dispatch that looks at the conversation id
dispatch_by_session(r) ==
    IF hreq[r].conversation_id # None THEN "StatefulDockerExecutor" ELSE code_executor

\* line 115: code_executor.execute(code, dataframe, timeout)
dispatch_target(r) == code_executor

execute_code_dispatch(r) ==
    /\ loop_owner = 0
    /\ hreq[r].pc = "created"
    /\ loop_owner' = r
    /\ LET b == dispatch_target(r)
       IN  hreq' = [hreq EXCEPT ![r] =
              [@ EXCEPT !.backend = b,
                        !.pc = CASE b = "DockerExecutor" ->
                                      IF docker_client THEN "dx_mkdtemp" ELSE "returned"
                                 [] b = "ProcessExecutor" -> "px_mkdtemp"
                                 [] OTHER -> "session",
                        !.out = IF b = "DockerExecutor" /\ ~docker_client
                                THEN "no_client" ELSE "none"]]
    /\ UNCHANGED <<execution_mode, docker_ping, code_executor, docker_client,
                   executions, temp_dirs, containers, procs, launched>>

(***************************************************************************)
(* Results of execute: a dict (success or not) or a propagated exception.  *)
(***************************************************************************)
DictOuts == {"ok", "empty", "nonzero", "timeout", "docker_error", "exception",
             "bad_result", "no_client"}
RaiseOuts == {"raise_TimeoutError", "raise_Exception"}

Success(out) == out \in {"ok", "empty"}

\* the dict that execute returns (docker_executor.py lines 67-74, 138-203,
\* process_executor.py lines 104-161): "ok" is a result.json that was read,
\* "empty" its absence, "bad_result" a result.json that json.load rejects
ExecResult(out) ==
    [success |-> Success(out),
     error |-> CASE out = "timeout" -> "Execution timed out"
                 [] out = "nonzero" -> "stderr"
                 [] out = "docker_error" -> "Docker error"
                 [] out \in {"exception", "bad_result"} -> "str(e)"
                 [] out = "no_client" -> "Docker client not initialized"
                 [] OTHER -> None,
     result |-> CASE out = "ok" -> "variables"
                  [] out = "empty" -> "{}"
                  [] OTHER -> None,
     visualizations |-> IF out = "ok" THEN "visualizations" ELSE None]

\* lines 121-138
FinalStatus(out) ==
    CASE out \in DictOuts -> IF Success(out) THEN "success" ELSE "failed"
      [] out = "raise_TimeoutError" -> "timeout"
      [] OTHER -> "failed"

\* stderr of the row: the dict's "stderr" key, or str(e)
StderrOf(out) == IF out = "no_client" THEN None ELSE "set"

\* lines 121-151: the row is updated and committed, the response returned
execute_code_finalize(r) ==
    /\ hreq[r].pc = "returned"
    /\ loop_owner = r
    /\ executions' = [executions EXCEPT ![r] =
          [@ EXCEPT !.status = FinalStatus(hreq[r].out),
                    !.stderr = StderrOf(hreq[r].out),
                    !.execution_time_ms =
                        IF hreq[r].out \in DictOuts THEN "set" ELSE @,
                    !.completed_at = executions[r].created_at + 1]]
    /\ hreq' = [hreq EXCEPT ![r] = Closed("closed_200", <<>>)]
    /\ loop_owner' = 0
    /\ UNCHANGED <<execution_mode, docker_ping, code_executor, docker_client,
                   temp_dirs, containers, procs, launched>>

(***************************************************************************)
(* get_execution, the handler of GET /{execution_id}: a query that changes *)
(* nothing.  The row of handler r has execution_id r.                      *)
(***************************************************************************)
NotFound == [http |-> 404, status |-> None, stderr |-> None,
             execution_time_ms |-> None]

\* a lookup by execution_id alone
get_execution_any_user(user, execution_id) ==
    LET row == executions[execution_id]
    IN  IF row # NoRow
        THEN [http |-> 200, status |-> row.status, stderr |-> row.stderr,
              execution_time_ms |-> row.execution_time_ms]
        ELSE NotFound

\* lines 161-182: select by execution_id and user_id, HTTP 404 without a row
get_execution(user, execution_id) ==
    LET row == executions[execution_id]
    IN  IF row # NoRow /\ row.user_id = user
        THEN [http |-> 200, status |-> row.status, stderr |-> row.stderr,
              execution_time_ms |-> row.execution_time_ms]
        ELSE NotFound

(***************************************************************************)
(* DockerExecutor.execute                                                  *)
(***************************************************************************)
settingsVars == <<execution_mode, docker_ping, code_executor, docker_client>>

Allocate(r, kind) == launched' = [launched EXCEPT ![r] = @ \cup {kind}]

\* lines 76-91: mkdtemp, then data.parquet and script.py are written
DxMkdtemp(r) ==
    /\ hreq[r].pc = "dx_mkdtemp"
    /\ \/ /\ temp_dirs' = temp_dirs \cup {r}          \* directory and files written
          /\ Allocate(r, "workdir")
          /\ hreq' = [hreq EXCEPT ![r].pc = "dx_run"]
       \/ /\ temp_dirs' = temp_dirs \cup {r}          \* writing a file raises
          /\ Allocate(r, "workdir")
          /\ hreq' = [hreq EXCEPT ![r].pc = "dx_rmtree", ![r].out = "raise_Exception"]
       \/ /\ UNCHANGED <<temp_dirs, launched>>        \* mkdtemp itself raises
          /\ hreq' = [hreq EXCEPT ![r].pc = "returned", ![r].out = "raise_Exception"]
    /\ UNCHANGED <<settingsVars, executions, containers, procs, loop_owner>>

\* no container: what the daemon holds for a handler that created none
NoKwargs == [image |-> None]

\* a container created on the default bridge network, as root
DockerExecutor_run_kwargs_bridge ==
    [image |-> "beagle-sandbox",
     network_mode |-> "bridge",
     mem_limit |-> "512m",
     cpu_period |-> 100000,
     cpu_quota |-> 50000,
     detach |-> TRUE,
     user |-> "root",
     cap_drop |-> {"ALL"},
     security_opt |-> {"no-new-privileges"}]

\* lines 101-117: the keyword arguments of containers.run
DockerExecutor_run_kwargs ==
    [image |-> "beagle-sandbox",
     network_mode |-> "none",
     mem_limit |-> "512m",
     cpu_period |-> 100000,
     cpu_quota |-> 50000,
     detach |-> TRUE,
     user |-> "sandbox",
     cap_drop |-> {"ALL"},
     security_opt |-> {"no-new-privileges"}]

\* the handlers whose container exists
one_shot_containers == {r \in Requests : containers[r] # NoKwargs}

\* lines 97-117: containers.run(detach=True)
DxRun(r) ==
    /\ hreq[r].pc = "dx_run"
    /\ \/ /\ containers' = [containers EXCEPT ![r] = DockerExecutor_run_kwargs]
          /\ Allocate(r, "container")
          /\ hreq' = [hreq EXCEPT ![r].pc = "dx_wait"]
       \/ /\ UNCHANGED <<containers, launched>>       \* APIError or another exception
          /\ \E o \in {"docker_error", "exception"} :
                hreq' = [hreq EXCEPT ![r].pc = "dx_remove", ![r].out = o]
    /\ UNCHANGED <<settingsVars, executions, temp_dirs, procs, loop_owner>>

\* lines 119-126: wait(timeout); any exception of wait, the expiry of the
\* deadline or another one, is handled as a timeout: kill, TimeoutError.
\* expired records whether the deadline has passed.
DxWait(r) ==
    /\ hreq[r].pc = "dx_wait"
    /\ \/ \E code \in {0, 1} :
            hreq' = [hreq EXCEPT ![r].pc = "dx_logs", ![r].exit = code]
       \/ \E late \in BOOLEAN :                                          \* kill()
            hreq' = [hreq EXCEPT ![r].pc = "dx_remove", ![r].out = "timeout",
                                 ![r].expired = late]
       \/ hreq' = [hreq EXCEPT ![r].pc = "dx_remove", ![r].out = "docker_error",
                                ![r].expired = TRUE]                      \* kill() raises
    /\ UNCHANGED <<settingsVars, executions, temp_dirs, containers, procs,
                   launched, loop_owner>>

DxLogs_any_exit(r) ==
    /\ hreq[r].pc = "dx_logs"
    /\ \E o \in {"ok", "empty"} :
          hreq' = [hreq EXCEPT ![r].pc = "dx_remove", ![r].out = o]
    /\ UNCHANGED <<settingsVars, executions, temp_dirs, containers, procs,
                   launched, loop_owner>>

\* lines 128-171: logs, exit code, result.json
DxLogs(r) ==
    /\ hreq[r].pc = "dx_logs"
    /\ \/ /\ hreq[r].exit # 0
          /\ hreq' = [hreq EXCEPT ![r].pc = "dx_remove", ![r].out = "nonzero"]
       \/ /\ hreq[r].exit = 0
          /\ \E o \in {"ok", "empty", "bad_result"} :  \* result.json read, absent, unreadable
                hreq' = [hreq EXCEPT ![r].pc = "dx_remove", ![r].out = o]
       \/ \E o \in {"docker_error", "exception"} :     \* logs() raises
                hreq' = [hreq EXCEPT ![r].pc = "dx_remove", ![r].out = o]
    /\ UNCHANGED <<settingsVars, executions, temp_dirs, containers, procs,
                   launched, loop_owner>>

\* a cleanup that forgets container.remove
DxRemove_skip(r) ==
    /\ hreq[r].pc = "dx_remove"
    /\ hreq' = [hreq EXCEPT ![r].pc = "dx_rmtree"]
    /\ UNCHANGED <<settingsVars, executions, temp_dirs, containers, procs,
                   launched, loop_owner>>

\* lines 204-210: inner finally
DxRemove(r) ==
    /\ hreq[r].pc = "dx_remove"
    /\ containers' = [containers EXCEPT ![r] = NoKwargs]
    /\ hreq' = [hreq EXCEPT ![r].pc = "dx_rmtree"]
    /\ UNCHANGED <<settingsVars, executions, temp_dirs, procs, launched, loop_owner>>

\* lines 212-214: outer finally
DxRmtree(r) ==
    /\ hreq[r].pc = "dx_rmtree"
    /\ temp_dirs' = temp_dirs \ {r}
    /\ hreq' = [hreq EXCEPT ![r].pc = "returned"]
    /\ UNCHANGED <<settingsVars, executions, containers, procs, launched, loop_owner>>

(***************************************************************************)
(* ProcessExecutor.execute                                                 *)
(***************************************************************************)
\* lines 70-85
PxMkdtemp(r) ==
    /\ hreq[r].pc = "px_mkdtemp"
    /\ \/ /\ temp_dirs' = temp_dirs \cup {r}
          /\ Allocate(r, "workdir")
          /\ hreq' = [hreq EXCEPT ![r].pc = "px_run"]
       \/ /\ temp_dirs' = temp_dirs \cup {r}
          /\ Allocate(r, "workdir")
          /\ hreq' = [hreq EXCEPT ![r].pc = "px_rmtree", ![r].out = "raise_Exception"]
       \/ /\ UNCHANGED <<temp_dirs, launched>>
          /\ hreq' = [hreq EXCEPT ![r].pc = "returned", ![r].out = "raise_Exception"]
    /\ UNCHANGED <<settingsVars, executions, containers, procs, loop_owner>>

\* lines 90-99: subprocess.run starts the child
PxRun(r) ==
    /\ hreq[r].pc = "px_run"
    /\ \/ /\ procs' = procs \cup {r}
          /\ Allocate(r, "subprocess")
          /\ hreq' = [hreq EXCEPT ![r].pc = "px_wait"]
       \/ /\ UNCHANGED <<procs, launched>>             \* the child cannot be started
          /\ hreq' = [hreq EXCEPT ![r].pc = "px_rmtree", ![r].out = "exception"]
    /\ UNCHANGED <<settingsVars, executions, temp_dirs, containers, loop_owner>>

\* lines 92-161: subprocess.run returns or raises TimeoutExpired after killing the child
PxWait(r) ==
    /\ hreq[r].pc = "px_wait"
    /\ procs' = procs \ {r}
    /\ \E o \in {"ok", "empty", "bad_result", "nonzero", "timeout"} :
          hreq' = [hreq EXCEPT ![r].pc = "px_rmtree", ![r].out = o,
                               ![r].exit = CASE o = "nonzero" -> 1
                                             [] o = "timeout" -> -1
                                             [] OTHER -> 0,
                               ![r].expired = (o = "timeout")]
    /\ UNCHANGED <<settingsVars, executions, temp_dirs, containers, launched, loop_owner>>

\* lines 163-165: finally
PxRmtree(r) ==
    /\ hreq[r].pc = "px_rmtree"
    /\ temp_dirs' = temp_dirs \ {r}
    /\ hreq' = [hreq EXCEPT ![r].pc = "returned"]
    /\ UNCHANGED <<settingsVars, executions, containers, procs, launched, loop_owner>>

(***************************************************************************)
(* StatefulDockerExecutor and the agent of a session container.            *)
(* Callers of execute are independent host tasks (worker processes or      *)
(* threads); execute holds no lock and keeps no state besides the Docker   *)
(* daemon's containers, which it finds by name.  The agent is a Flask      *)
(* server: each request is served by its own thread over the process-wide  *)
(* EXECUTION_GLOBALS.                                                      *)
(***************************************************************************)
NumCalls == 2         \* calls of StatefulDockerExecutor.execute

Calls == 1..NumCalls

Unbound == <<"unbound", 0>>     \* a name without a binding
NoFile == <<"nofile", 0>>       \* /app/data.parquet does not exist
Names == {"a", "df"}            \* variables user code binds
Val(e) == <<"code", e>>         \* the value call e's code binds
Data(e) == <<"data", e>>        \* the dataset call e supplies

\* user code: a sequence of statements, each binding a name, raising or looping
SessionInputs ==
    { [conv |-> None, code |-> <<"a">>,         data |-> FALSE],
      [conv |-> "s1", code |-> <<"a">>,         data |-> FALSE],
      [conv |-> "s1", code |-> <<"a", "hang">>, data |-> FALSE],
      [conv |-> "s1", code |-> <<"df">>,        data |-> TRUE],
      [conv |-> None, code |-> <<"df", "raise", "a">>, data |-> FALSE] }

\* stateful_docker_executor.py line 55: conversation_id: str = "default"
conversation_id_of(conv) == IF conv = None THEN "default" ELSE conv

\* line 180
container_name(conversation_id) == <<"beagle-session-", conversation_id>>

\* execution_server.py lines 36-53: the globals of a fresh agent process
FreshGlobals == [n \in Names |-> Unbound]

\* lines 198-209: the keyword arguments of containers.run; the host port is
\* left to the daemon (None)
StatefulDockerExecutor_run_kwargs ==
    [image |-> "beagle-sandbox",
     ports |-> [host_ip |-> "127.0.0.1", host_port |-> None],
     detach |-> TRUE,
     mem_limit |-> "1g",
     cpu_period |-> 100000,
     cpu_quota |-> 50000,
     network_mode |-> "bridge",
     cap_drop |-> {"ALL"},
     security_opt |-> {"no-new-privileges"}]

NoContainer == [status |-> "absent", name |-> None, session |-> None,
                agent |-> "down", env |-> FreshGlobals, data_file |-> NoFile,
                gen |-> 0, last_resp |-> 0, config |-> NoKwargs]

IdleCall == [pc |-> "idle", conv |-> None, code |-> <<>>, data |-> FALSE,
             target |-> 0, apc |-> "none", ip |-> 0, gen |-> 0,
             success |-> FALSE, res |-> "none", variables |-> FreshGlobals,
             load_err |-> FALSE, tmp |-> FALSE]

\* the daemon's lookup by name
Named(n) == {c \in Calls : sc[c].status # "absent" /\ sc[c].name = n}

\* a container (re)starts: a new agent process, EXECUTION_GLOBALS as imported
StartAgent(box) == [box EXCEPT !.status = "running", !.agent = "booting",
                               !.env = FreshGlobals, !.gen = @ + 1,
                               !.last_resp = 0]

\* the agent process of container c ends: its request threads end with it
KillThreads(cl, c) ==
    [f \in Calls |-> IF cl[f].target = c /\ cl[f].apc = "exec"
                     THEN [cl[f] EXCEPT !.apc = "dead"]
                     ELSE cl[f]]

Return(e, kind) == [call[e] EXCEPT !.pc = "done", !.res = kind, !.apc = "none",
                                   !.ip = 0]

AfterResolve(e) == IF call[e].data THEN "stage" ELSE "post"

\* lines 180-193: containers.get(container_name); lines 184-186: a container
\* that is not running is started, then time.sleep(2) (lines 218-221)
Resolve(cl, e) ==
    LET found == Named(container_name(conversation_id_of(cl.conv)))
        c == CHOOSE c \in found : TRUE
    IN  IF found = {} THEN [cl EXCEPT !.pc = "run"]
        ELSE [cl EXCEPT !.target = c,
                        !.pc = IF sc[c].status # "running" THEN "start"
                               ELSE IF cl.data THEN "stage" ELSE "post"]

\* lines 50-82: the call enters, without a client it returns at once,
\* otherwise it looks its container up
sx_execute(e) ==
    /\ call[e].pc = "idle"
    /\ \A q \in Calls : q < e => call[q].pc # "idle"
    /\ \E inp \in SessionInputs :
        LET c0 == [IdleCall EXCEPT !.conv = inp.conv, !.code = inp.code,
                                   !.data = inp.data]
        IN  call' = [call EXCEPT ![e] =
                        IF sx_client THEN Resolve(c0, e)
                        ELSE [c0 EXCEPT !.pc = "done", !.res = "no_client"]]
    /\ UNCHANGED <<sx_client, sc>>

sx_run_unnamed(e) ==
    /\ call[e].pc = "run"
    /\ sc' = [sc EXCEPT ![e] =
                StartAgent([NoContainer EXCEPT
                               !.name = <<"unnamed-", "x">>,
                               !.config = StatefulDockerExecutor_run_kwargs,
                               !.session = conversation_id_of(call[e].conv)])]
    /\ call' = [call EXCEPT ![e].target = e, ![e].pc = AfterResolve(e)]
    /\ UNCHANGED sx_client

\* lines 195-216: containers.run(name=container_name, detach=True), then
\* time.sleep(2); the daemon refuses a name that is in use (409), which
\* execute reports (lines 167-176)
sx_run(e) ==
    /\ call[e].pc = "run"
    /\ LET cid == conversation_id_of(call[e].conv)
       IN  IF Named(container_name(cid)) # {}
           THEN /\ call' = [call EXCEPT ![e] = Return(e, "conflict")]
                /\ UNCHANGED sc
           ELSE /\ sc' = [sc EXCEPT ![e] =
                            StartAgent([NoContainer EXCEPT
                                           !.name = container_name(cid),
                                           !.config = StatefulDockerExecutor_run_kwargs,
                                           !.session = cid])]
                /\ call' = [call EXCEPT ![e].target = e, ![e].pc = AfterResolve(e)]
    /\ UNCHANGED sx_client

\* lines 184-186: container.start() of a container that is not running, then
\* time.sleep(2)
sx_start(e) ==
    /\ call[e].pc = "start"
    /\ LET c == call[e].target
       IN  sc' = [sc EXCEPT ![c] = IF @.status = "running" THEN @ ELSE StartAgent(@)]
    /\ call' = [call EXCEPT ![e].pc = AfterResolve(e)]
    /\ UNCHANGED sx_client

\* lines 84-115: a host temporary file (delete=False) receives the parquet,
\* is packed into a tar stream and sent with container.put_archive("/app");
\* os.unlink is the finally of the put_archive try only (lines 101-115): when
\* to_parquet or tarfile raises, the outer except (lines 167-176) returns and
\* the file stays.  tmp: the call's temporary file exists.
sx_put_archive(e) ==
    /\ call[e].pc = "stage"
    /\ \/ /\ sc' = [sc EXCEPT ![call[e].target].data_file = Data(e)]
          /\ call' = [call EXCEPT ![e].pc = "post"]
       \/ /\ call' = [call EXCEPT ![e] = Return(e, "upload_failed")]
          /\ UNCHANGED sc
       \/ /\ call' = [call EXCEPT ![e] = [Return(e, "exception") EXCEPT !.tmp = TRUE]]
          /\ UNCHANGED sc
    /\ UNCHANGED sx_client

\* a load that keeps a df that is already bound
LoadData_once(box, has_path, read_ok) ==
    IF has_path /\ box.data_file # NoFile /\ read_ok /\ box.env["df"] = Unbound
    THEN [box.env EXCEPT !["df"] = box.data_file]
    ELSE box.env

\* execution_server.py lines 123-135: a data_path that exists is read and
\* bound to df; a read that raises leaves the globals as they are
LoadData(box, has_path, read_ok) ==
    IF has_path /\ box.data_file # NoFile /\ read_ok
    THEN [box.env EXCEPT !["df"] = box.data_file]
    ELSE box.env

\* lines 117-127 (and the agent's lines 111-137): requests.post reaches the
\* agent, whose request thread loads data_path, or the connection is refused.
\* load_err: "Error loading data" was written to the response's stderr.
sx_post(e) ==
    /\ call[e].pc = "post"
    /\ LET c == call[e].target
       IN  IF sc[c].status = "running" /\ sc[c].agent = "ready"
           THEN \E read_ok \in (IF call[e].data THEN BOOLEAN ELSE {FALSE}) :
                /\ sc' = [sc EXCEPT
                             ![c].env = LoadData(sc[c], call[e].data, read_ok),
                             ![c].last_resp = IF read_ok THEN 0 ELSE @]
                /\ call' = [call EXCEPT ![e].pc = "await", ![e].apc = "exec",
                                        ![e].ip = 1, ![e].gen = sc[c].gen,
                                        ![e].success = TRUE,
                                        ![e].load_err = call[e].data /\ ~read_ok]
           ELSE /\ call' = [call EXCEPT ![e] = Return(e, "comm_error")]
                /\ UNCHANGED sc
    /\ UNCHANGED sx_client

agent_stmt_lost(e) ==
    /\ call[e].apc = "exec"
    /\ call[e].ip <= Len(call[e].code)
    /\ call' = [call EXCEPT ![e].ip = @ + 1]
    /\ UNCHANGED <<sx_client, sc>>

\* an exec whose exception undoes the bindings of the agent process
agent_stmt_rollback(e) ==
    /\ call[e].apc = "exec"
    /\ call[e].ip <= Len(call[e].code)
    /\ LET st == call[e].code[call[e].ip]
           c  == call[e].target
       IN  \/ /\ st \in Names
              /\ sc' = [sc EXCEPT ![c].env[st] = Val(e), ![c].last_resp = 0]
              /\ call' = [call EXCEPT ![e].ip = @ + 1]
           \/ /\ st = "raise"
              /\ call' = [call EXCEPT ![e].ip = Len(call[e].code) + 1,
                                      ![e].success = FALSE]
              /\ sc' = [sc EXCEPT ![c].env = FreshGlobals]
    /\ UNCHANGED sx_client

\* execution_server.py lines 140-146: exec(code, EXECUTION_GLOBALS), one
\* statement at a time; a loop never ends; an exception ends the code with
\* success False and the traceback in the captured stderr
agent_stmt(e) ==
    /\ call[e].apc = "exec"
    /\ call[e].ip <= Len(call[e].code)
    /\ LET st == call[e].code[call[e].ip]
           c  == call[e].target
       IN  \/ /\ st \in Names
              /\ sc' = [sc EXCEPT ![c].env[st] = Val(e), ![c].last_resp = 0]
              /\ call' = [call EXCEPT ![e].ip = @ + 1]
           \/ /\ st = "raise"
              /\ call' = [call EXCEPT ![e].ip = Len(call[e].code) + 1,
                                      ![e].success = FALSE]
              /\ UNCHANGED sc
    /\ UNCHANGED sx_client

\* execution_server.py lines 148-184 and stateful_docker_executor.py lines
\* 128-141: the envelope, which names every global that the code or a load
\* has bound with its value, is returned to the caller
agent_respond(e) ==
    /\ call[e].apc = "exec"
    /\ call[e].pc = "await"
    /\ call[e].ip > Len(call[e].code)
    /\ LET c == call[e].target
       IN  /\ call' = [call EXCEPT ![e] =
                  [Return(e, "ok") EXCEPT !.variables = sc[c].env]]
           /\ sc' = [sc EXCEPT ![c].last_resp = e]
    /\ UNCHANGED sx_client

sx_timeout_keep(e) ==
    /\ call[e].pc = "await"
    /\ call[e].apc = "exec"
    /\ call' = [call EXCEPT ![e] = Return(e, "timeout")]
    /\ UNCHANGED <<sx_client, sc>>

\* lines 143-154: requests.exceptions.Timeout, container.restart()
sx_timeout(e) ==
    /\ call[e].pc = "await"
    /\ call[e].apc = "exec"
    /\ LET c == call[e].target
       IN  /\ sc' = [sc EXCEPT ![c] = StartAgent(@)]
           /\ call' = [KillThreads(call, c) EXCEPT ![e] = Return(e, "timeout")]
    /\ UNCHANGED sx_client

\* lines 156-165: requests.exceptions.RequestException
sx_conn_error(e) ==
    /\ call[e].pc = "await"
    /\ call[e].apc = "dead"
    /\ call' = [call EXCEPT ![e] = Return(e, "comm_error")]
    /\ UNCHANGED <<sx_client, sc>>

\* execution_server.py lines 190-191: app.run, the agent starts to listen
agent_boot(c) ==
    /\ sc[c].status = "running"
    /\ sc[c].agent = "booting"
    /\ sc' = [sc EXCEPT ![c].agent = "ready"]
    /\ UNCHANGED <<sx_client, call>>

\* user code ends the agent process (the memory cap of line 203, os._exit):
\* the container exits
sandbox_exit(c) ==
    /\ sc[c].status = "running"
    /\ \E e \in Calls : call[e].target = c /\ call[e].apc = "exec"
    /\ sc' = [sc EXCEPT ![c].status = "exited", ![c].agent = "down",
                        ![c].env = FreshGlobals, ![c].last_resp = 0]
    /\ call' = KillThreads(call, c)
    /\ UNCHANGED sx_client

(***************************************************************************)
(* The result envelope.  User code runs between the setup and the teardown *)
(* of a wrapper (code_wrapper.wrap_code for DockerExecutor,                *)
(* ProcessExecutor._wrap_code) or inside execute_code of the agent; the    *)
(* teardown turns the globals and the figures into the envelope.           *)
(* A value is its type and its number of rows, items or characters.        *)
(***************************************************************************)
MaxStmts == 3         \* statements of one user program
MaxRuns == 2          \* requests that one agent process serves

head_rows == 10       \* obj.head(10)
flat_items == 20      \* obj.flatten()[:20]

Backends == {"wrap_code", "_wrap_code", "agent"}

NoValue == [kind |-> "unbound", n |-> 0]
PlotlyFigure == [kind |-> "go.Figure", n |-> 21]

PlainValues ==
    { [kind |-> "DataFrame", n |-> 11],
      [kind |-> "Series", n |-> 11],
      [kind |-> "ndarray", n |-> 21],
      [kind |-> "str", n |-> 21],
      [kind |-> "int", n |-> 1] }

EnvNames == {"fig", "x", "_h"}

\* user statements: plt.figure(), plt.show(), name = value
UserStmts ==
    { [op |-> "plt.figure", name |-> None, value |-> NoValue],
      [op |-> "plt.show", name |-> None, value |-> NoValue],
      [op |-> "bind", name |-> "fig", value |-> PlotlyFigure],
      [op |-> "bind", name |-> "fig", value |-> [kind |-> "int", n |-> 1]],
      [op |-> "bind", name |-> "_h", value |-> PlotlyFigure] }
    \cup { [op |-> "bind", name |-> "x", value |-> v] : v \in PlainValues }

\* req: the number of the request the agent process serves; base: the
\* number of figures that were created before this request
IdleRun == [pc |-> "idle", backend |-> None, steps |-> 0,
            globals |-> [n \in EnvNames |-> NoValue], order |-> <<>>,
            fignums |-> <<>>, created |-> 0,
            visualizations |-> <<>>, variables |-> [n \in {} |-> NoValue],
            req |-> 0, base |-> 0]

\* safe_serialize (the three copies agree on the types modelled): tables and
\* series keep the first head_rows rows, arrays the first flat_items flat
\* items, what json.dumps accepts is returned as it is, the rest is str(obj)
safe_serialize(obj) ==
    CASE obj.kind = "DataFrame" ->
            [type |-> "dataframe", size |-> obj.n, items |-> Min(obj.n, head_rows)]
      [] obj.kind = "Series" ->
            [type |-> "series", size |-> obj.n, items |-> Min(obj.n, head_rows)]
      [] obj.kind = "ndarray" ->
            [type |-> "array", size |-> obj.n, items |-> Min(obj.n, flat_items)]
      [] obj.kind \in {"int", "str", "list"} ->
            [type |-> obj.kind, size |-> obj.n, items |-> obj.n]
      [] OTHER ->
            [type |-> "str(obj)", size |-> obj.n, items |-> obj.n]

\* _capture_plt_show: every open figure, in the order of plt.get_fignums(),
\* becomes a base64 PNG entry and is closed
RECURSIVE Captured(_)
Captured(fignums) ==
    IF fignums = <<>> THEN <<>>
    ELSE <<[type |-> "image", format |-> "png", of |-> Head(fignums)]>>
         \o Captured(Tail(fignums))

name_startswith_underscore(name) == name = "_h"

\* the names that the collecting loop does not skip, in dict order
Collected(run) ==
    SelectSeq(run.order, LAMBDA n : ~name_startswith_underscore(n))

\* hasattr(val, 'to_json') and isinstance(val, go.Figure)
is_plotly(val) == val.kind = "go.Figure"

RECURSIVE PlotlyEntries(_, _)
PlotlyEntries(names, globals) ==
    IF names = <<>> THEN <<>>
    ELSE (IF is_plotly(globals[Head(names)])
          THEN <<[type |-> "plotly", format |-> "json", of |-> Head(names)]>>
          ELSE <<>>)
         \o PlotlyEntries(Tail(names), globals)

SeqRange(q) == {q[i] : i \in 1..Len(q)}

\* the run starts: setup of the wrapper, or the reset of line 113 of the agent
env_begin ==
    /\ wrun.pc = "idle"
    /\ \E b \in Backends :
          wrun' = [IdleRun EXCEPT !.pc = "user", !.backend = b, !.req = 1]

\* one statement of user code.  plt.show is _capture_plt_show where the
\* setup has patched it (code_wrapper.py line 62, execution_server.py line
\* 74); _wrap_code leaves the show of the Agg backend, which does nothing
env_stmt ==
    /\ wrun.pc = "user"
    /\ wrun.steps < MaxStmts
    /\ \E st \in UserStmts :
        LET run == [wrun EXCEPT !.steps = @ + 1]
        IN  wrun' =
              CASE st.op = "plt.figure" ->
                     [run EXCEPT !.created = @ + 1,
                                 !.fignums = Append(@, wrun.created + 1)]
                [] st.op = "plt.show" ->
                     IF wrun.backend = "_wrap_code" THEN run
                     ELSE [run EXCEPT
                             !.visualizations = @ \o Captured(wrun.fignums),
                             !.fignums = <<>>]
                [] OTHER ->
                     [run EXCEPT
                        !.globals[st.name] = st.value,
                        !.order = IF st.name \in SeqRange(@) THEN @
                                  ELSE Append(@, st.name)]

\* code_wrapper.py lines 127-159 (execution_server.py lines 148-184 has the
\* same steps): open figures are drained, plotly figures are appended and
\* left out of the variables unless to_json raises, the rest is serialized
teardown_with_capture(run, to_json_ok) ==
    LET names  == Collected(run)
        probed == IF to_json_ok THEN PlotlyEntries(names, run.globals) ELSE <<>>
        kept   == {n \in SeqRange(names) :
                      ~(to_json_ok /\ is_plotly(run.globals[n]))}
    IN  [run EXCEPT !.pc = "done",
                    !.visualizations = @ \o Captured(run.fignums) \o probed,
                    !.fignums = <<>>,
                    !.variables = [n \in kept |-> safe_serialize(run.globals[n])]]

wrap_code_teardown ==
    /\ wrun.pc = "user"
    /\ wrun.backend = "wrap_code"
    /\ \E to_json_ok \in BOOLEAN : wrun' = teardown_with_capture(wrun, to_json_ok)

agent_teardown ==
    /\ wrun.pc = "user"
    /\ wrun.backend = "agent"
    /\ \E to_json_ok \in BOOLEAN : wrun' = teardown_with_capture(wrun, to_json_ok)

\* process_executor.py lines 237-276: every collected name is serialized,
\* the list of visualizations is empty
_wrap_code_teardown ==
    /\ wrun.pc = "user"
    /\ wrun.backend = "_wrap_code"
    /\ wrun' = [wrun EXCEPT
                  !.pc = "done",
                  !.visualizations = <<>>,
                  !.variables = [n \in SeqRange(Collected(wrun)) |->
                                    safe_serialize(wrun.globals[n])]]

\* a next request without the reset of the list
agent_next_request_keep ==
    /\ wrun.pc = "done"
    /\ wrun.backend = "agent"
    /\ wrun.req < MaxRuns
    /\ wrun' = [wrun EXCEPT !.pc = "user", !.steps = 0,
                            !.variables = [n \in {} |-> NoValue],
                            !.req = @ + 1, !.base = wrun.created]

\* execution_server.py lines 110-113 and 137-138: the agent serves the next
\* request of its session: the list of visualizations and the result
\* variables are new, EXECUTION_GLOBALS is kept
agent_next_request ==
    /\ wrun.pc = "done"
    /\ wrun.backend = "agent"
    /\ wrun.req < MaxRuns
    /\ wrun' = [wrun EXCEPT !.pc = "user", !.steps = 0,
                            !.visualizations = <<>>,
                            !.variables = [n \in {} |-> NoValue],
                            !.req = @ + 1, !.base = wrun.created]

\* the next run: a new one-shot sandbox, or a new agent process
env_reset ==
    /\ wrun.pc = "done"
    /\ wrun' = IdleRun

(***************************************************************************)
(* Specification of the coordinator with its one-shot executors            *)
(***************************************************************************)
CoordIdle ==
    /\ docker_ping = "unknown"
    /\ code_executor = "unset"
    /\ docker_client = FALSE
    /\ hreq = [r \in Requests |-> IdleReq]
    /\ executions = [r \in Requests |-> NoRow]
    /\ temp_dirs = {}
    /\ containers = [r \in Requests |-> NoKwargs]
    /\ procs = {}
    /\ launched = [r \in Requests |-> {}]
    /\ loop_owner = 0
    /\ disconnected = {}

SessionIdle ==
    /\ call = [e \in Calls |-> IdleCall]
    /\ sc = [c \in Calls |-> NoContainer]
    /\ wrun = IdleRun

Init ==
    /\ execution_mode \in ExecutionModes
    /\ CoordIdle
    /\ sx_client = FALSE
    /\ SessionIdle

Next ==
    \/ Startup /\ UNCHANGED <<sessVars, envVars, disconnected>>
    \/ \E r \in Requests :
        \/ execute_code_validate(r) /\ UNCHANGED <<sessVars, envVars, disconnected>>
        \/ execute_code_select(r) /\ UNCHANGED <<sessVars, envVars, disconnected>>
        \/ execute_code_load(r) /\ UNCHANGED <<sessVars, envVars, disconnected>>
        \/ execute_code_dispatch(r) /\ UNCHANGED <<sessVars, envVars, disconnected>>
        \/ execute_code_finalize(r) /\ UNCHANGED <<sessVars, envVars, disconnected>>
        \/ DxMkdtemp(r) /\ UNCHANGED <<sessVars, envVars, disconnected>>
        \/ DxRun(r) /\ UNCHANGED <<sessVars, envVars, disconnected>>
        \/ DxWait(r) /\ UNCHANGED <<sessVars, envVars, disconnected>>
        \/ DxLogs(r) /\ UNCHANGED <<sessVars, envVars, disconnected>>
        \/ DxRemove(r) /\ UNCHANGED <<sessVars, envVars, disconnected>>
        \/ DxRmtree(r) /\ UNCHANGED <<sessVars, envVars, disconnected>>
        \/ PxMkdtemp(r) /\ UNCHANGED <<sessVars, envVars, disconnected>>
        \/ PxRun(r) /\ UNCHANGED <<sessVars, envVars, disconnected>>
        \/ PxWait(r) /\ UNCHANGED <<sessVars, envVars, disconnected>>
        \/ PxRmtree(r) /\ UNCHANGED <<sessVars, envVars, disconnected>>

Spec == Init /\ [][Next]_vars

(***************************************************************************)
(* Specification of the coordinator that also receives programs with       *)
(* imports                                                                 *)
(***************************************************************************)
NextImports ==
    \/ Next
    \/ \E r \in Requests :
          /\ execute_code_validate_from(r, ImportInputs)
          /\ UNCHANGED <<sessVars, envVars, disconnected>>

SpecImports == Init /\ [][NextImports]_vars

(***************************************************************************)
(* Specification of the coordinator whose clients may close the connection *)
(* while their sandbox runs.  execute.py has no code that observes a       *)
(* disconnect.  The handler either runs on to its end, or, when the server *)
(* cancels the task of a disconnected request, CancelledError is raised at *)
(* the handler's next await, the commit of line 140 (the executors'        *)
(* execute has no await): it is no Exception, so no except clause of lines *)
(* 130-138 handles it and the update of the row is never committed.        *)
(***************************************************************************)
client_disconnect(r) ==
    /\ hreq[r].pc \in {"dx_wait", "px_wait"}
    /\ r \notin disconnected
    /\ disconnected' = disconnected \cup {r}
    /\ UNCHANGED <<settingsVars, hreq, executions, temp_dirs, containers, procs,
                   launched, loop_owner>>

execute_code_cancelled(r) ==
    /\ hreq[r].pc = "returned"
    /\ loop_owner = r
    /\ r \in disconnected
    /\ hreq' = [hreq EXCEPT ![r] = Closed("cancelled", <<>>)]
    /\ loop_owner' = 0
    /\ UNCHANGED <<settingsVars, executions, temp_dirs, containers, procs,
                   launched, disconnected>>

NextCancel ==
    \/ Next
    \/ \E r \in Requests :
        \/ client_disconnect(r) /\ UNCHANGED <<sessVars, envVars>>
        \/ execute_code_cancelled(r) /\ UNCHANGED <<sessVars, envVars>>

SpecCancel == Init /\ [][NextCancel]_vars

(***************************************************************************)
(* Specification of the session executor with its agents                   *)
(***************************************************************************)
InitSession ==
    /\ execution_mode = "DOCKER"
    /\ CoordIdle
    /\ sx_client \in BOOLEAN       \* docker.from_env() of __init__ (lines 30-34)
    /\ SessionIdle

NextSession ==
    \/ \E e \in Calls :
        \/ sx_execute(e) /\ UNCHANGED <<coordVars, envVars>>
        \/ sx_run(e) /\ UNCHANGED <<coordVars, envVars>>
        \/ sx_start(e) /\ UNCHANGED <<coordVars, envVars>>
        \/ sx_put_archive(e) /\ UNCHANGED <<coordVars, envVars>>
        \/ sx_post(e) /\ UNCHANGED <<coordVars, envVars>>
        \/ agent_stmt(e) /\ UNCHANGED <<coordVars, envVars>>
        \/ agent_respond(e) /\ UNCHANGED <<coordVars, envVars>>
        \/ sx_timeout(e) /\ UNCHANGED <<coordVars, envVars>>
        \/ sx_conn_error(e) /\ UNCHANGED <<coordVars, envVars>>
    \/ \E c \in Calls :
        \/ agent_boot(c) /\ UNCHANGED <<coordVars, envVars>>
        \/ sandbox_exit(c) /\ UNCHANGED <<coordVars, envVars>>

SpecSession == InitSession /\ [][NextSession]_vars

(***************************************************************************)
(* Specification of sandbox creation by both kinds of executor.  The       *)
(* coordinator never refers to StatefulDockerExecutor, the two share no    *)
(* state: a behaviour is a run of the coordinator with DockerExecutor or   *)
(* a run of the session executor, each with a Docker client.               *)
(***************************************************************************)
InitSandboxes ==
    /\ execution_mode = "DOCKER"
    /\ CoordIdle
    /\ sx_client = TRUE
    /\ SessionIdle

NextSandboxes ==
    \/ SessionIdle /\ Next
    \/ CoordIdle /\ NextSession

SpecSandboxes == InitSandboxes /\ [][NextSandboxes]_vars

(***************************************************************************)
(* Specification of the result envelope                                    *)
(***************************************************************************)
InitEnvelope ==
    /\ execution_mode = "DOCKER"
    /\ CoordIdle
    /\ sx_client = FALSE
    /\ SessionIdle

NextEnvelope ==
    \/ env_begin /\ UNCHANGED <<coordVars, sessVars>>
    \/ env_stmt /\ UNCHANGED <<coordVars, sessVars>>
    \/ wrap_code_teardown /\ UNCHANGED <<coordVars, sessVars>>
    \/ _wrap_code_teardown /\ UNCHANGED <<coordVars, sessVars>>
    \/ agent_teardown /\ UNCHANGED <<coordVars, sessVars>>
    \/ agent_next_request /\ UNCHANGED <<coordVars, sessVars>>
    \/ env_reset /\ UNCHANGED <<coordVars, sessVars>>

SpecEnvelope == InitEnvelope /\ [][NextEnvelope]_vars

(***************************************************************************)
(* Claims about the coordinator and the one-shot executors (under Spec)    *)
(***************************************************************************)
Terminal == {"success", "failed", "timeout"}
ClosedPcs == {"closed_200", "closed_400", "closed_404", "closed_500"}
ExecutorPcs == {"dx_mkdtemp", "dx_run", "dx_wait", "dx_logs", "dx_remove",
                "dx_rmtree", "px_mkdtemp", "px_run", "px_wait", "px_rmtree"}

C1_RowStep(r) ==
    LET a == executions[r].status
        b == executions'[r].status
    IN  \/ a = b
        \/ /\ a = "absent" /\ b = "running"
           /\ hreq[r].pc \in {"idle", "loading"} /\ hreq'[r].pc = "created"
           /\ validate_code(code_executor, hreq'[r].code).valid
        \/ /\ a = "running" /\ b \in Terminal
           /\ hreq[r].pc = "returned" /\ hreq'[r].pc = "closed_200"

C1_RowInv ==
    \A r \in Requests :
        /\ executions[r].status \in {"absent", "running"} \cup Terminal
        /\ hreq[r].pc \in {"idle", "validated", "loading"} =>
              executions[r].status = "absent"
        /\ executions[r].status = "running" <=>
              hreq[r].pc \in {"created", "returned"} \cup ExecutorPcs
        /\ executions[r].status \in Terminal <=> hreq[r].pc = "closed_200"

C2_RejectionAllocatesNothing ==
    \A r \in Requests :
        (hreq[r].code # <<>> /\ ~validate_code(code_executor, hreq[r].code).valid) =>
            /\ launched[r] = {}
            /\ r \notin temp_dirs \cup one_shot_containers \cup procs
            /\ hreq[r].backend = "none"

C2_Witness ==
    \E r, q \in Requests :
        /\ hreq[r].pc = "closed_400"
        /\ hreq[r].code = os_system
        /\ launched[r] = {}
        /\ launched[q] = {"workdir", "container"}

C9_NoFallback ==
    (Upper(execution_mode) = "DOCKER" /\ docker_ping = "fail") =>
        \A r \in Requests :
            /\ hreq[r].backend \notin {"ProcessExecutor"}
            /\ "subprocess" \notin launched[r]
            /\ executions[r].status # "success"

Begins(e) == call[e].apc # "exec" /\ call'[e].apc = "exec"

Binds(e) == /\ call[e].apc = "exec"
            /\ call'[e].apc = "exec"
            /\ call'[e].ip = call[e].ip + 1

\* the execution whose envelope was the last thing to touch the environment
\* of e's container: no statement, load or restart since
Previous(e) == sc[call'[e].target].last_resp

C3_Overwrites(e) ==
    Binds(e) =>
        LET c == call[e].target
            n == call[e].code[call[e].ip]
        IN  sc'[c].env = [sc[c].env EXCEPT ![n] = Val(e)]

\* C3 as stated: every variable bound at the end of the first execution has
\* the same value when the code of the next execution of the session starts
C3_AllBindingsKept ==
    [][\A e \in Calls :
        (Begins(e) /\ Previous(e) # 0) =>
            \A n \in Names :
                call[Previous(e)].variables[n] # Unbound =>
                    sc'[call'[e].target].env[n] = call[Previous(e)].variables[n]]_vars

\* C3: between two consecutive executions of a session (the second starts
\* when the envelope of the first is the last thing the agent did) every
\* variable bound at the end of the first has the same value when the code
\* of the second starts, except df when the second supplies a dataset, which
\* is then bound to the staged dataset if it can be read; a statement of the second that binds
\* a name overwrites that name and nothing else.
C3_SessionPersistence ==
    [][\A e \in Calls :
        /\ (Begins(e) /\ Previous(e) # 0) =>
            LET c == call'[e].target
                f == Previous(e)
            IN  /\ conversation_id_of(call[f].conv) = conversation_id_of(call[e].conv)
                /\ \A n \in Names :
                     call[f].variables[n] # Unbound =>
                        \/ sc'[c].env[n] = call[f].variables[n]
                        \/ /\ n = "df" /\ call[e].data
                           /\ sc[c].data_file # NoFile
                           /\ sc'[c].env[n] = sc[c].data_file
        /\ C3_Overwrites(e)]_vars

\* the code of the second execution is about to start and a is bound as
\* the first left it
C3_Witness ==
    \E f, e \in Calls :
        /\ f # e
        /\ call[e].apc = "exec" /\ call[e].ip = 1
        /\ sc[call[e].target].last_resp = f
        /\ call[f].res = "ok" /\ call[f].variables["a"] = Val(f)
        /\ sc[call[e].target].env["a"] = Val(f)

Observed(g) == IF call[g].apc = "exec" THEN sc[call[g].target].env
               ELSE call[g].variables

C5_OneSandboxPerSession ==
    /\ \A c, d \in Calls :
         (/\ sc[c].status # "absent"
          /\ sc[d].status # "absent"
          /\ sc[c].session = sc[d].session) => c = d
    /\ \A e \in Calls :
         call[e].target # 0 =>
            /\ sc[call[e].target].status # "absent"
            /\ sc[call[e].target].session = conversation_id_of(call[e].conv)

\* two first executions of a session raced: one created the container, the
\* daemon refused the other
C5_Witness ==
    \E e, g \in Calls :
        /\ e # g
        /\ call[g].res = "conflict"
        /\ call[e].target = e
        /\ call[e].conv = call[g].conv
        /\ sc[e].status = "running"

\* C6 as stated: user code of two executions never runs at the same time
\* against the environment of one session
C6_OneInFlight ==
    \A e, f \in Calls :
        (/\ e # f
         /\ call[e].apc = "exec"
         /\ call[f].apc = "exec"
         /\ call[e].target = call[f].target) => FALSE

\* C7 as stated: the envelope of an execution holds nothing that an
\* execution of another session, or another caller without a session
\* identifier, has bound or supplied
C7_NoCrossSession ==
    \A g, f \in Calls :
        (/\ g # f
         /\ call[g].res = "ok"
         /\ (call[g].conv = None \/ call[g].conv # call[f].conv))
            => \A n \in Names : call[g].variables[n] \notin {Val(f), Data(f)}

(***************************************************************************)
(* Claims about the terminal status and the results of the executors       *)
(***************************************************************************)
Finalizes(r) == hreq[r].pc = "returned" /\ hreq'[r].pc = "closed_200"

\* C11 as stated: an execution whose deadline expired ends with the row in
\* status timeout, and success or failed is recorded only for an execution
\* that finished within its deadline
C11_DeadlineGivesTimeout ==
    [][\A r \in Requests :
        Finalizes(r) =>
            (hreq[r].expired <=> executions'[r].status = "timeout")]_vars

\* C12 as stated: a submit that the validator rejects leaves a row whose
\* status is failed and whose stderr holds the reason
C12_RejectionLeavesRecord ==
    \A r \in Requests :
        hreq[r].pc = "closed_400" =>
            /\ executions[r].status = "failed"
            /\ executions[r].stderr # None

\* C13 as stated: after a transport error between the host and the agent of
\* a session, the next call for that session does not resolve to the
\* container that failed
C13_FaultedNeverReused ==
    [][\A g, e \in Calls :
        (/\ call[g].pc = "idle" /\ call'[g].pc # "idle"
         /\ call[e].res = "comm_error"
         /\ conversation_id_of(call'[g].conv) = conversation_id_of(call[e].conv))
            => call'[g].target # call[e].target]_vars

AfterWait(r) ==
    /\ hreq[r].pc \in {"dx_remove", "dx_rmtree", "px_rmtree", "returned"}
    /\ hreq[r].out \in DictOuts

\* C14 as stated: the result of DockerExecutor reports a timeout, without
\* variables and visualizations, when the wait expired, and only then
C14_TimeoutIffExpired ==
    \A r \in Requests :
        (AfterWait(r) /\ hreq[r].backend = "DockerExecutor") =>
            LET res == ExecResult(hreq[r].out)
            IN  /\ hreq[r].expired <=> res.error = "Execution timed out"
                /\ res.error = "Execution timed out" =>
                      /\ ~res.success
                      /\ res.result = None
                      /\ res.visualizations = None

C19_ElapsedIffTerminal ==
    \A r \in Requests :
        executions[r].status # "absent" =>
            (executions[r].execution_time_ms # None <=>
                executions[r].status \in Terminal)

\* C20 as stated: the timestamps of a row that are set satisfy
\* created_at <= started_at <= completed_at
C20_TimestampOrder ==
    \A r \in Requests :
        executions[r].status # "absent" =>
            /\ executions[r].started_at # NoTime =>
                  executions[r].created_at <= executions[r].started_at
            /\ (executions[r].started_at # NoTime /\ executions[r].completed_at # NoTime) =>
                  executions[r].started_at <= executions[r].completed_at

(***************************************************************************)
(* Claims about the result envelope (under SpecEnvelope)                   *)
(***************************************************************************)
EntriesOf(type, of) ==
    {i \in 1..Len(wrun.visualizations) :
        /\ wrun.visualizations[i].type = type
        /\ wrun.visualizations[i].of = of}

\* C16 as stated: with every wrapper and the agent, a collected variable that
\* is bound to a plotly figure has exactly one plotly entry in
\* visualizations and no entry in variables
C16_FigureNeverInVariables ==
    wrun.pc = "done" =>
        \A n \in SeqRange(Collected(wrun)) :
            is_plotly(wrun.globals[n]) =>
                /\ Cardinality(EntriesOf("plotly", n)) = 1
                /\ n \notin DOMAIN wrun.variables

\* C17 as stated: with every wrapper and the agent, each figure that user
\* code has opened appears exactly once as a PNG image entry, the entries
\* are in the order of capture, the agent keeps no figure open, and there
\* is no image entry without a figure
C17_RasterFiguresCaptured ==
    wrun.pc = "done" =>
        LET vis == wrun.visualizations
            images == {i \in 1..Len(vis) : vis[i].type = "image"}
        IN  /\ \A f \in 1..wrun.created : Cardinality(EntriesOf("image", f)) = 1
            /\ \A i \in images : vis[i].format = "png" /\ vis[i].of \in 1..wrun.created
            /\ \A i, j \in images : i < j => vis[i].of < vis[j].of
            /\ wrun.backend = "agent" => wrun.fignums = <<>>

\* C18 as stated, with the largest preview of the code taken for the limit
\* N: previews of tables and series have at most head_rows rows, previews
\* of arrays at most flat_items items, and no string or list longer than
\* the limit is passed through in full
C18_EnvelopeBounded ==
    wrun.pc = "done" =>
        \A n \in DOMAIN wrun.variables :
            LET v == wrun.variables[n]
            IN  /\ v.type \in {"dataframe", "series"} => v.items <= head_rows
                /\ v.type = "array" => v.items <= flat_items
                /\ v.type \in {"str", "list"} => v.items <= flat_items

(***************************************************************************)
(* Import policy                                                           *)
(***************************************************************************)
\* Settings.allowed_imports (app/config.py lines 72-79)
allowed_imports ==
    {"pandas", "numpy", "scipy", "sklearn", "statsmodels", "matplotlib",
     "seaborn", "plotly", "datetime", "math", "statistics", "collections",
     "itertools", "functools"}

\* the top-level modules a program imports (import X / from X import ...)
RECURSIVE ImportedModules(_)
ImportedModules(code) ==
    IF code = <<>> THEN {}
    ELSE (IF Head(code) = "import socket" THEN {"socket"} ELSE {})
         \cup ImportedModules(Tail(code))

\* C21: a program that the coordinator's validator accepted, and that was
\* dispatched to a backend, imports only modules of allowed_imports,
\* whichever executor is selected.
C21_ImportsAllowListed ==
    \A r \in Requests :
        hreq[r].backend # "none" =>
            ImportedModules(hreq[r].code) \subseteq allowed_imports

\* C22: every container is created with the hardened configuration: a
\* one-shot container has no network, 512 MiB of memory, half a core, all
\* capabilities dropped, no-new-privileges and a non-root user; a session
\* container has 1 GiB, half a core, all capabilities dropped,
\* no-new-privileges and its agent port published on 127.0.0.1 only.
HalfCore(k) == 2 * k.cpu_quota = k.cpu_period

Confined(k) ==
    /\ k.cap_drop = {"ALL"}
    /\ "no-new-privileges" \in k.security_opt

C22_HardenedSandboxes ==
    /\ \A r \in one_shot_containers :
        LET k == containers[r]
        IN  /\ k.network_mode = "none"
            /\ k.mem_limit = "512m"
            /\ HalfCore(k)
            /\ Confined(k)
            /\ k.user \notin {"root", "0"}
    /\ \A c \in Calls :
        sc[c].status # "absent" =>
            LET k == sc[c].config
            IN  /\ k.mem_limit = "1g"
                /\ HalfCore(k)
                /\ Confined(k)
                /\ k.ports.host_ip = "127.0.0.1"

\* a session container that was created and later restarted is running,
\* with the configuration of its creation
C22_Witness ==
    \E c \in Calls :
        /\ sc[c].status = "running"
        /\ sc[c].gen = 2
        /\ sc[c].config = StatefulDockerExecutor_run_kwargs

\* C23: when the caller cancels the request while its sandbox is running,
\* the record of the execution ends in status timeout.
C23_CancelEndsInTimeout ==
    \A r \in Requests :
        (r \in disconnected /\ hreq[r].pc \in {"closed_200", "cancelled"}) =>
            executions[r].status = "timeout"

\* C24: independent executions can be in flight at the same time: while one
\* execution is waiting on its sandbox, the host can start the execution of
\* another request whose record has been created.
C24_WaitDoesNotDelayOthers ==
    \A r, q \in Requests :
        (/\ r # q
         /\ hreq[r].pc \in {"dx_wait", "px_wait"}
         /\ hreq[q].pc = "created") =>
            ENABLED execute_code_dispatch(q)

\* C25: the session executor sends /execute to an agent only when that agent
\* is ready to serve, after a creation, a start and a restart alike.
Posts(e) == call[e].pc = "post" /\ call'[e].pc # "post"

C25_PostOnlyToReadyAgent ==
    [][\A e \in Calls :
          Posts(e) => /\ sc[call[e].target].status = "running"
                      /\ sc[call[e].target].agent = "ready"]_vars

\* C26: a request of a session that supplies a dataset has df bound to the
\* dataset it staged when its code starts to run; a request that supplies
\* none finds df as it was.
Accepted(e) == call[e].pc = "post" /\ call'[e].apc = "exec"

C26_DatasetRebindsDf ==
    [][\A e \in Calls :
          Accepted(e) =>
              LET c == call[e].target
              IN  IF call[e].data
                  THEN sc'[c].env["df"] = Data(e)
                  ELSE sc'[c].env["df"] = sc[c].env["df"]]_vars

\* C26 as the code has it: when the agent accepts a request that supplies a
\* dataset, df is rebound to the file that /app/data.parquet then holds,
\* which a request of the session has staged, unless the read raises: then
\* the error is reported in stderr and df stays as it was.  A request that
\* supplies no dataset finds df as it was.
C26_ReloadUnlessReadFails ==
    [][\A e \in Calls :
          Accepted(e) =>
              LET c == call[e].target
              IN  IF call[e].data
                  THEN /\ \E f \in Calls : call[f].data /\ sc[c].data_file = Data(f)
                       /\ sc'[c].env["df"] =
                             IF call'[e].load_err THEN sc[c].env["df"]
                             ELSE sc[c].data_file
                  ELSE /\ sc'[c].env["df"] = sc[c].env["df"]
                       /\ ~call'[e].load_err]_vars

\* a request has returned df as its own code rebound it, and the next
\* request of the session, which supplies a dataset, starts with df bound to
\* the dataset it staged
C26_Witness ==
    \E e, f \in Calls :
        /\ call[f].pc = "done" /\ call[f].res = "ok"
        /\ call[f].variables["df"] = Val(f)
        /\ call[e].target = call[f].target
        /\ call[e].data /\ call[e].apc = "exec" /\ call[e].ip = 1
        /\ ~call[e].load_err
        /\ sc[call[e].target].env["df"] = Data(e)

\* C27: when staging the dataset fails, execute returns a failure without
\* posting to the agent, the sandbox is as it was before the step, and the
\* host's temporary data file is deleted.
C27_StagingFailureLeavesNothing ==
    [][\A e \in Calls :
          (call[e].pc = "stage" /\ call'[e].pc = "done") =>
              /\ call'[e].res # "ok"
              /\ call'[e].apc = "none"
              /\ sc' = sc
              /\ ~call'[e].tmp]_vars

\* C28: a session execution whose code raises is not rolled back: the
\* exception changes nothing in the environment, the envelope has success
\* false and the variables of the environment as the failed code left it,
\* and the next execution of the session starts with these bindings.
Raises(e) == call[e].apc = "exec" /\ call[e].success /\ ~call'[e].success

RespondsFailed(e) ==
    /\ call[e].apc = "exec" /\ ~call[e].success
    /\ call'[e].pc = "done" /\ call'[e].res = "ok"

AgentDone == wrun.pc = "done" /\ wrun.backend = "agent"

ImagesOfThisRequest ==
    \A i \in 1..Len(wrun.visualizations) :
        wrun.visualizations[i].type = "image" =>
            wrun.visualizations[i].of \in (wrun.base + 1)..wrun.created

Emitted(n) ==
    \E i \in 1..Len(wrun.visualizations) :
        /\ wrun.visualizations[i].type = "plotly"
        /\ wrun.visualizations[i].of = n

\* C29 as stated: the visualizations of a session's response hold the raster
\* figures captured during that request only, and every vector figure that
\* is bound to a variable, in this request or an earlier one, is emitted.
C29_FigureEmittedEveryRequest ==
    AgentDone =>
        /\ ImagesOfThisRequest
        /\ \A n \in EnvNames : is_plotly(wrun.globals[n]) => Emitted(n)

\* C29: the visualizations of a session's response hold the raster figures
\* captured during that request only; a vector figure is emitted exactly
\* while a name that does not start with an underscore is bound to it,
\* whichever request bound it, unless its to_json raises: then it is
\* returned among the variables instead.
C29_FigureEmittedWhileBound ==
    AgentDone =>
        /\ ImagesOfThisRequest
        /\ \A n \in EnvNames :
              /\ Emitted(n) =>
                    /\ is_plotly(wrun.globals[n])
                    /\ ~name_startswith_underscore(n)
                    /\ n \notin DOMAIN wrun.variables
              /\ (is_plotly(wrun.globals[n]) /\ ~name_startswith_underscore(n)) =>
                    (Emitted(n) \/ n \in DOMAIN wrun.variables)

\* the second request of a session ran no statement: its response has no
\* image although the first request drew one, and it emits again the vector
\* figure that the first request bound to fig
C29_Witness ==
    /\ AgentDone
    /\ wrun.req = 2 /\ wrun.steps = 0
    /\ wrun.base = 1 /\ wrun.created = 1
    /\ is_plotly(wrun.globals["fig"])
    /\ wrun.visualizations = <<[type |-> "plotly", format |-> "json", of |-> "fig"]>>

(***************************************************************************)
(* Claims about ownership                                                  *)
(***************************************************************************)
\* C30: get returns a record to the user whose user_id is stored on it and
\* not-found to every other user; submit goes on with a dataset reference
\* only when it names a file of the submitting user that is not deleted, and
\* otherwise ends with 404 before a record or a sandbox exists.
C30_OwnerScoping ==
    /\ \A u \in Users, id \in Requests :
          LET g == get_execution(u, id)
          IN  IF executions[id] # NoRow /\ executions[id].user_id = u
              THEN g.http = 200 /\ g.status = executions[id].status
              ELSE g = NotFound
    /\ \A r \in Requests :
          /\ (hreq[r].file_id # None /\ hreq[r].pc \notin {"idle", "validated"}) =>
                FileVisible(hreq[r].user, hreq[r].file_id)
          /\ (executions[r] # NoRow /\ executions[r].file_id # None) =>
                FileVisible(executions[r].user_id, executions[r].file_id)
          /\ hreq[r].pc = "closed_404" =>
                /\ executions[r] = NoRow
                /\ launched[r] = {}
                /\ r \notin temp_dirs \cup one_shot_containers \cup procs

\* u1 has the record of an execution on its file f1; u2 is told not-found
\* for that record, and u2's submit that names f1 has ended with 404
C30_Witness ==
    \E r, q \in Requests :
        /\ hreq[r].pc = "closed_200"
        /\ executions[r].user_id = "u1" /\ executions[r].file_id = "f1"
        /\ get_execution("u1", r).http = 200
        /\ get_execution("u2", r) = NotFound
        /\ hreq[q].pc = "closed_404"
        /\ executions[q] = NoRow

====
